---- MODULE Spec2Model ----
(***************************************************************************)
(* Model of the rclone "telegram" backend (backend/telegram/telegram.go).  *)
(*                                                                         *)
(* The chat is an append-only sequence of document messages.  Fs.Put sends *)
(* the object as a document, reads the latest filelist.json back through   *)
(* loadFileList, appends the object's name and sends the new list as a     *)
(* document named filelist.json.  Fs.List decodes the latest filelist.json.*)
(* Every HTTP call of Put is a separate step, so that Put calls of         *)
(* different callers interleave; loadFileList only reads messages that are *)
(* never changed afterwards, so it is one step taken at its getUpdates.    *)
(*                                                                         *)
(* Assumptions on the transport, which the source does not settle:         *)
(* getUpdates reports every document message of the chat, oldest first; a  *)
(* sendDocument request that fails or is answered with another status than *)
(* 200 has sent no message.  The steps of Put that build the multipart     *)
(* bodies in memory are taken not to fail.                                 *)
(***************************************************************************)
EXTENDS Integers, Sequences, FiniteSets, TLC

VARIABLES chan, pc, call, out

vars == <<chan, pc, call, out>>

(* ---------------------------------------------------------------------- *)
(* Bounds and input sets                                                  *)
(* ---------------------------------------------------------------------- *)

\* Greatest number of messages on the chat.
MaxChan == 4

\* Concurrent callers of the backend.
Procs == {"p1", "p2"}

\* The name Put gives to the file list document.
ReservedName == "filelist.json"

\* Objects the callers put: the name (in.Remote()) and the bytes of src.
\* An object may carry the name of the file list; its bytes are then no
\* JSON, or happen to be a JSON array of strings.
Objects ==
    { [name |-> "a", bytes |-> <<"junk">>],
      [name |-> "d/b", bytes |-> <<"junk">>],
      [name |-> ReservedName, bytes |-> <<"junk">>],
      [name |-> ReservedName, bytes |-> <<"[", "a", "]">>] }

\* Directory arguments of List.
Dirs == {"", "d/"}

\* Outcomes of a sendDocument request: it succeeds, http.Do fails, or the
\* response status is not 200.
UploadFaults == {"none", "reqErr", "status"}

\* Transport outcomes inside loadFileList: no fault; "scan", the getUpdates
\* request fails or its response does not decode; "fetch", the getFile
\* request or the download of the document fails.
LoadFaults == {"none", "scan", "fetch"}

(* ---------------------------------------------------------------------- *)
(* Wire format of the file list                                           *)
(* ---------------------------------------------------------------------- *)

\* The list encoded as an empty array, whatever it holds.
MarshalIndentEmpty(fileList) == <<"[", "]">>

\* json.MarshalIndent(fileList): a JSON array of the names.
MarshalIndent(fileList) == <<"[">> \o fileList \o <<"]">>

\* json.Decode into []string succeeds on an array of strings and on null.
Decodable(body) ==
    \/ body = <<"null">>
    \/ /\ Len(body) >= 2
       /\ body[1] = "["
       /\ body[Len(body)] = "]"
       /\ \A i \in 2..(Len(body) - 1) : body[i] \notin {"[", "]", "null", "junk"}

Decode(body) ==
    IF body = <<"null">> THEN <<>> ELSE SubSeq(body, 2, Len(body) - 1)

(* ---------------------------------------------------------------------- *)
(* loadFileList                                                           *)
(* ---------------------------------------------------------------------- *)

\* The loop of loadFileList: from the newest message down, the index of the
\* first document named filelist.json, 0 when there is none.
RECURSIVE ScanBack(_, _)
ScanBack(ch, i) ==
    IF i = 0 THEN 0
    ELSE IF ch[i].name = ReservedName THEN i
    ELSE ScanBack(ch, i - 1)

\* The loop run from the oldest message up: the first match, not the last.
LatestIdxOldest(ch) ==
    LET hits == {i \in DOMAIN ch : ch[i].name = ReservedName} IN
    IF hits = {} THEN 0 ELSE CHOOSE i \in hits : \A j \in hits : i <= j

LatestIdx(ch) == ScanBack(ch, Len(ch))

NoList == <<>>

loadFileList(ch, fault) ==
    LET idx == LatestIdx(ch) IN
    IF fault = "scan"
        THEN [err |-> fault, fileList |-> NoList, ver |-> 0]
    ELSE IF idx = 0
        THEN [err |-> "notfound", fileList |-> NoList, ver |-> 0]
    ELSE IF fault = "fetch"
        THEN [err |-> fault, fileList |-> NoList, ver |-> idx]
    ELSE IF ~Decodable(ch[idx].body)
        THEN [err |-> "decode", fileList |-> NoList, ver |-> idx]
    ELSE [err |-> "nil", fileList |-> Decode(ch[idx].body), ver |-> idx]

(* ---------------------------------------------------------------------- *)
(* State                                                                  *)
(* ---------------------------------------------------------------------- *)

\* The locals of a caller's Put while it runs: the name, the position of the
\* object's message on the chat (0: not sent), the error loadFileList
\* returned, the position of the filelist.json it read (0: none), and
\* fileList.
NoCall ==
    [name |-> "", blobIdx |-> 0, loadErr |-> "notcalled", baseVer |-> 0,
     fileList |-> <<>>]

\* What a message of the chat records of the Put that sent it (not visible
\* to the program): the object's name and, on a file list, the position of
\* the object's message, the error loadFileList had returned and the file
\* list that was read.
SentBy(c) ==
    [name |-> c.name, blobIdx |-> c.blobIdx, loadErr |-> c.loadErr,
     baseVer |-> c.baseVer]

\* What the last call to return has returned, while the chat is as that call
\* left it: op is "Put", "List" or an accessor of TelegramObject, who the
\* caller of a Put, err the error ("nil" for none), handle the fs.Object of
\* a Put, dir and entries the argument and the result of a List.  After an
\* accessor, entries is still the listing its object came from.
NoOut ==
    [op |-> "none", who |-> "", err |-> "nil", handle |-> "nil", dir |-> "",
     entries |-> <<>>]

PutOut(p, err, handle) ==
    [NoOut EXCEPT !.op = "Put", !.who = p, !.err = err, !.handle = handle]

Init ==
    /\ chan = <<>>
    /\ pc = [p \in Procs |-> "idle"]
    /\ call = [p \in Procs |-> NoCall]
    /\ out = NoOut

\* Calls of Put that have sent the object and may still send the file list.
\* A Put starts only when the chat has room for its two messages and for the
\* file list of every call under way.
InFlight == {p \in Procs : pc[p] /= "idle"}

(* ---------------------------------------------------------------------- *)
(* Fs.Put                                                                 *)
(* ---------------------------------------------------------------------- *)

\* The message written over the last one of the chat, not sent after it.
sendDocumentOver(ch, msg) ==
    IF ch = <<>> THEN <<msg>> ELSE [ch EXCEPT ![Len(ch)] = msg]

\* A sendDocument request answered 200: the chat has one more message.
sendDocument(ch, msg) == Append(ch, msg)

\* The error of the request looked at, its failure not acted upon.
UploadFailedNever(fault) == FALSE

\* The check of the response status left out.
UploadFailedNoStatus(fault) == fault = "reqErr"

\* The checks after a sendDocument request: err != nil or status != 200.
UploadFailed(fault) == fault /= "none"

\* Put, first request: send the object as a document named in.Remote().
PutUpload(p, name, bytes, fault) ==
    /\ pc[p] = "idle"
    /\ Len(chan) + Cardinality(InFlight) + 2 <= MaxChan
    /\ chan' = IF fault = "none"
                 THEN sendDocument(chan,
                          [name |-> name, body |-> bytes, kind |-> "blob",
                           by |-> SentBy([NoCall EXCEPT !.name = name])])
                 ELSE chan
    /\ IF UploadFailed(fault)
         THEN /\ pc' = pc
              /\ call' = [call EXCEPT ![p] = NoCall]
              /\ out' = PutOut(p, "upload failed", "nil")
         ELSE /\ pc' = [pc EXCEPT ![p] = "uploaded"]
              /\ call' = [call EXCEPT ![p] =
                    [NoCall EXCEPT !.name = name,
                        !.blobIdx = IF fault = "none" THEN Len(chan') ELSE 0]]
              /\ out' = IF chan' = chan THEN out ELSE NoOut

\* Put, lines 94-98: an error of loadFileList, whichever it is, makes the
\* list empty; then the name is appended.
StartList(r) == IF r.err /= "nil" THEN <<>> ELSE r.fileList

\* The result of append thrown away.
NewListNoAppend(r, name) == StartList(r)

\* fileList = append(fileList, in.Remote())
NewList(r, name) == Append(StartList(r), name)

PutLoad(p, fault) ==
    /\ pc[p] = "uploaded"
    /\ LET r == loadFileList(chan, fault) IN
       call' = [call EXCEPT ![p].loadErr = r.err,
                            ![p].baseVer = r.ver,
                            ![p].fileList = NewList(r, call[p].name)]
    /\ pc' = [pc EXCEPT ![p] = "loaded"]
    /\ UNCHANGED <<chan, out>>

\* Put, second request: send the list as a document named filelist.json and
\* return nil, nil.
PutPublish(p, fault) ==
    /\ pc[p] = "loaded"
    /\ pc' = [pc EXCEPT ![p] = "idle"]
    /\ chan' = IF fault = "none"
                 THEN sendDocument(chan,
                          [name |-> ReservedName,
                           body |-> MarshalIndent(call[p].fileList),
                           kind |-> "catalog",
                           by |-> SentBy(call[p])])
                 ELSE chan
    /\ call' = [call EXCEPT ![p] = NoCall]
    /\ out' = IF UploadFailed(fault)
                THEN PutOut(p, "filelist upload failed", "nil")
                ELSE PutOut(p, "nil", "nil")

(* ---------------------------------------------------------------------- *)
(* Fs.List and TelegramObject                                             *)
(* ---------------------------------------------------------------------- *)

\* List builds one TelegramObject per name of the file list; dir is not used.
ListEntries(fileList, dir) == fileList

List(dir, fault) ==
    /\ LET r == loadFileList(chan, fault) IN
       out' = [NoOut EXCEPT !.op = "List", !.dir = dir, !.err = r.err,
                  !.entries = IF r.err /= "nil" THEN <<>>
                              ELSE ListEntries(r.fileList, dir)]
    /\ UNCHANGED <<chan, pc, call>>

ObjOps == {"Open", "Update", "Remove", "Hash"}

\* Remove reporting success.
RemoveNil(o) == "nil"

Hash(o) == "ErrorHashUnsupported"
Remove(o) == "ErrorNotImplemented"
Update(o) == "ErrorNotImplemented"
Open(o) == "ErrorNotImplemented"

ObjErr(op, o) ==
    CASE op = "Hash" -> Hash(o)
      [] op = "Remove" -> Remove(o)
      [] op = "Update" -> Update(o)
      [] op = "Open" -> Open(o)

\* An accessor called on an object of the last listing.
ObjectOp(op, i) ==
    /\ out.op \in {"List"} \cup ObjOps
    /\ i \in 1..Len(out.entries)
    /\ out' = [out EXCEPT !.op = op, !.err = ObjErr(op, out.entries[i])]
    /\ UNCHANGED <<chan, pc, call>>

(* ---------------------------------------------------------------------- *)
(* Specification                                                          *)
(* ---------------------------------------------------------------------- *)

Next ==
    \/ \E p \in Procs, o \in Objects, f \in UploadFaults :
          PutUpload(p, o.name, o.bytes, f)
    \/ \E p \in Procs, f \in LoadFaults : PutLoad(p, f)
    \/ \E p \in Procs, f \in UploadFaults : PutPublish(p, f)
    \/ \E dir \in Dirs, f \in LoadFaults : List(dir, f)
    \/ \E op \in ObjOps, i \in 1..MaxChan : ObjectOp(op, i)

Spec == Init /\ [][Next]_vars

(* ---------------------------------------------------------------------- *)
(* Vocabulary of the properties                                           *)
(* ---------------------------------------------------------------------- *)

\* What loadFileList returns on the chat ch when no request fails.
Latest(ch) == loadFileList(ch, "none")

Names(list) == {list[i] : i \in DOMAIN list}

Catalogs == {i \in DOMAIN chan : chan[i].kind = "catalog"}

\* A load that read a file list, or found none: not a failure.
CleanLoad(e) == e \in {"nil", "notfound"}

\* List was the last call to return, and none of its requests failed.
ListedNow == out.op = "List" /\ out.err \notin {"scan", "fetch"}

\* The characters of the names and directories of the model.
Chars(s) ==
    CASE s = "" -> <<>>
      [] s = "a" -> <<"a">>
      [] s = "d/" -> <<"d", "/">>
      [] s = "d/b" -> <<"d", "/", "b">>
      [] s = ReservedName ->
            <<"f", "i", "l", "e", "l", "i", "s", "t", ".", "j", "s", "o", "n">>

HasPrefix(s, prefix) ==
    /\ Len(Chars(prefix)) <= Len(Chars(s))
    /\ SubSeq(Chars(s), 1, Len(Chars(prefix))) = Chars(prefix)

\* The entries of the latest file list among the first n messages.
EntriesAt(n) ==
    LET r == Latest(SubSeq(chan, 1, n)) IN
    IF r.err = "nil" THEN r.fileList ELSE <<>>

\* A step of p's Put from its start in which the object was not sent.
UploadFails(p) ==
    /\ pc[p] = "idle"
    /\ \/ pc'[p] /= "idle"
       \/ out' /= out /\ out'.op = "Put" /\ out'.who = p
    /\ call'[p].blobIdx = 0

Unsupported == {"ErrorNotImplemented", "ErrorHashUnsupported"}

(* ---------------------------------------------------------------------- *)
(* Properties                                                             *)
(* ---------------------------------------------------------------------- *)

\* C1: no lost updates.  When two Puts of distinct names have both published
\* their file list, each derived from the same latest file list (or from
\* none), and nothing was sent after the second, the latest file list
\* contains both names.  Only chats on which no object carries the name
\* filelist.json are looked at, and only Puts whose loadFileList did not
\* fail, so that nothing but the interleaving is at stake.
NoLostUpdates ==
    \A i, j \in Catalogs :
        ( /\ i < j
          /\ j = Len(chan)
          /\ \A k \in DOMAIN chan : chan[k].kind = "blob" => chan[k].name /= ReservedName
          /\ CleanLoad(chan[i].by.loadErr)
          /\ CleanLoad(chan[j].by.loadErr)
          /\ chan[i].by.baseVer = chan[j].by.baseVer
          /\ chan[i].by.name /= chan[j].by.name )
        => /\ Latest(chan).err = "nil"
           /\ {chan[i].by.name, chan[j].by.name} \subseteq Names(Latest(chan).fileList)

\* C2: round trip.  When the last message of the chat is the file list that
\* a successful Put of a name sent, a List whose requests do not fail returns
\* no error and an entry with that name.
RoundTrip ==
    ( /\ ListedNow
      /\ Len(chan) > 0
      /\ chan[Len(chan)].kind = "catalog" )
    => /\ out.err = "nil"
       /\ chan[Len(chan)].by.name \in Names(out.entries)

\* A List right after a Put that appended to a file list already there.
RoundTripSeen ==
    /\ ListedNow
    /\ Len(chan) > 0
    /\ chan[Len(chan)].kind = "catalog"
    /\ chan[Len(chan)].by.loadErr = "nil"
    /\ Len(out.entries) >= 2
    /\ out.entries[Len(out.entries)] = chan[Len(chan)].by.name

\* C3: empty start.  On a chat with no message named filelist.json, a List
\* whose requests do not fail returns no error and no entry.
EmptyStart ==
    (ListedNow /\ LatestIdx(chan) = 0)
    => (out.err = "nil" /\ out.entries = <<>>)

\* C4: corrupt catalog.  When the latest filelist.json does not decode, List
\* fails with the decoding error, and a Put whose loadFileList returned that
\* error goes no further: it sends no file list.
CorruptCatalogFails ==
    /\ (ListedNow /\ Latest(chan).err = "decode") => out.err = "decode"
    /\ \A p \in Procs : pc[p] = "loaded" => call[p].loadErr /= "decode"
    /\ \A i \in Catalogs : chan[i].by.loadErr /= "decode"

\* C5: error propagation.  A Put whose loadFileList failed for another
\* reason than "filelist.json not found" (a request failed) goes no further:
\* it sends no file list.
PutPropagatesLoadErrors ==
    /\ \A p \in Procs : pc[p] = "loaded" => call[p].loadErr \notin {"scan", "fetch"}
    /\ \A i \in Catalogs : chan[i].by.loadErr \notin {"scan", "fetch"}

\* C6: failure isolation.  A Put whose upload of the object fails returns an
\* error there, without calling loadFileList and without sending anything,
\* and what List would return is what it would have returned before.
FailureIsolation ==
    [][ \A p \in Procs :
          UploadFails(p)
          => /\ pc'[p] = "idle"
             /\ out' = PutOut(p, "upload failed", "nil")
             /\ call'[p].loadErr = "notcalled"
             /\ chan' = chan
             /\ Latest(chan') = Latest(chan) ]_vars

\* A Put has failed at the upload of the object on a chat that has a file
\* list.
FailureIsolationSeen ==
    /\ out.op = "Put"
    /\ out.err = "upload failed"
    /\ pc[out.who] = "idle"
    /\ Latest(chan).err = "nil"
    /\ Latest(chan).fileList /= <<>>

\* C7: reserved name.  No object is sent under the name filelist.json, and
\* the message loadFileList selects is always a file list sent by Put.
ReservedNameRejected ==
    /\ \A i \in DOMAIN chan : chan[i].kind = "blob" => chan[i].name /= ReservedName
    /\ LatestIdx(chan) > 0 => chan[LatestIdx(chan)].kind = "catalog"

\* C8: append order.  When the last four messages are the object and the
\* file list of a Put of a, then the object and the file list of a Put of b,
\* the latest file list is the entries there were before, then a, then b.
AppendOrder ==
    LET n == Len(chan) IN
    ( /\ n >= 4
      /\ chan[n - 3].kind = "blob"
      /\ chan[n - 2].kind = "catalog" /\ chan[n - 2].by.blobIdx = n - 3
      /\ chan[n - 1].kind = "blob"
      /\ chan[n].kind = "catalog" /\ chan[n].by.blobIdx = n - 1 )
    => /\ Latest(chan).err = "nil"
       /\ Latest(chan).fileList =
              EntriesAt(n - 4) \o <<chan[n - 2].by.name, chan[n].by.name>>

\* C9: prefix filter.  A successful List(dir) returns exactly the entries of
\* the latest file list whose name starts with dir, in the order of the list.
PrefixFilter ==
    (out.op = "List" /\ out.err = "nil")
    => out.entries =
          SelectSeq(Latest(chan).fileList, LAMBDA nm : HasPrefix(nm, out.dir))

\* C10: unsupported boundary.  Open, Update, Remove and Hash of an object
\* that List returned give an unsupported or not-implemented error, and the
\* chat is as it was.
UnsupportedBoundary ==
    [][ (out' /= out /\ out'.op \in ObjOps)
        => (out'.err \in Unsupported /\ chan' = chan) ]_vars

\* Remove has been called on an object of a listing.
UnsupportedBoundarySeen ==
    /\ out.op = "Remove"
    /\ out.err = "ErrorNotImplemented"
    /\ Len(out.entries) >= 1

\* The names of the Puts whose file list is on the first n messages of the
\* chat, in the order in which the lists were sent.
RECURSIVE Published(_)
Published(n) ==
    IF n = 0 THEN <<>>
    ELSE IF chan[n].kind = "catalog" THEN Append(Published(n - 1), chan[n].by.name)
    ELSE Published(n - 1)

\* No object carries the name filelist.json, and no Put that sent a file
\* list had its loadFileList fail.
Undisturbed ==
    /\ \A k \in DOMAIN chan : chan[k].kind = "blob" => chan[k].name /= ReservedName
    /\ \A i \in Catalogs : CleanLoad(chan[i].by.loadErr)

\* C11: publish-order reflection.  On a chat that started empty, the latest
\* file list is the names of all the Puts that sent their file list, in the
\* order in which they sent it.  Only chats on which no object carries the
\* name filelist.json and no loadFileList of a publishing Put failed are
\* looked at, so that nothing but the interleaving is at stake.
PublishOrder ==
    (Undisturbed /\ Catalogs /= {})
    => /\ Latest(chan).err = "nil"
       /\ Latest(chan).fileList = Published(Len(chan))

\* C12: successful-put postcondition.  Every file list on the chat was sent
\* by a Put that had sent its object before it, under the Put's name; the
\* list decodes and contains that name, and it comes later on the chat than
\* the file list it was derived from.  When Put has just returned no error,
\* the last message of the chat is such a file list.
PutPostcondition ==
    /\ \A i \in Catalogs :
          LET b == chan[i].by IN
          /\ b.blobIdx \in 1..(i - 1)
          /\ chan[b.blobIdx].kind = "blob"
          /\ chan[b.blobIdx].name = b.name
          /\ Decodable(chan[i].body)
          /\ b.name \in Names(Decode(chan[i].body))
          /\ b.baseVer < i
    /\ (out.op = "Put" /\ out.err = "nil")
       => (Len(chan) > 0 /\ chan[Len(chan)].kind = "catalog")

\* A Put has returned no error after appending to a file list that was
\* already on the chat.
PutPostconditionSeen ==
    /\ out.op = "Put"
    /\ out.err = "nil"
    /\ Len(chan) > 0
    /\ chan[Len(chan)].kind = "catalog"
    /\ chan[Len(chan)].by.baseVer > 0
    /\ chan[Len(chan)].by.loadErr = "nil"

\* C13: a Put that returns no error returns a handle that is not absent.
PutReturnsHandle ==
    (out.op = "Put" /\ out.err = "nil") => out.handle /= "nil"

\* C14: conflict detection.  Every file list that a Put sent after a
\* loadFileList that did not fail was derived from the filelist.json that
\* was the latest on the chat when the list was sent: no list derived from a
\* stale read is ever sent.  Only chats on which no object carries the name
\* filelist.json are looked at.
NoStalePublish ==
    (\A k \in DOMAIN chan : chan[k].kind = "blob" => chan[k].name /= ReservedName)
    => \A i \in Catalogs :
          CleanLoad(chan[i].by.loadErr)
          => chan[i].by.baseVer = LatestIdx(SubSeq(chan, 1, i - 1))

\* The position of the newest message of ch named filelist.json, 0 when
\* there is none.
Newest(ch) ==
    LET hits == {i \in DOMAIN ch : ch[i].name = ReservedName} IN
    IF hits = {} THEN 0 ELSE CHOOSE i \in hits : \A j \in hits : j <= i

\* What a loadFileList whose requests do not fail owes on the chat ch: the
\* decoded newest filelist.json.
Owed(ch) ==
    IF Newest(ch) = 0 THEN [err |-> "notfound", fileList |-> <<>>]
    ELSE IF ~Decodable(ch[Newest(ch)].body) THEN [err |-> "decode", fileList |-> <<>>]
    ELSE [err |-> "nil", fileList |-> Decode(ch[Newest(ch)].body)]

\* C15: latest-snapshot selection.  A List whose requests do not fail
\* returns the names of the newest message named filelist.json that is on
\* the chat when List runs, all of them and nothing else, whatever an
\* earlier call returned; the loadFileList of a Put reads that same message.
LatestSelected ==
    [][ /\ (out' /= out /\ out'.op = "List" /\ out'.err \notin {"scan", "fetch"})
           => /\ out'.err = Owed(chan).err
              /\ out'.entries = Owed(chan).fileList
        /\ \A p \in Procs :
              (pc[p] = "uploaded" /\ pc'[p] = "loaded" /\ call'[p].loadErr /= "scan")
              => call'[p].baseVer = Newest(chan) ]_vars

\* List has returned the names of the newest filelist.json on a chat that
\* holds an older one with other names.
LatestSelectedSeen ==
    /\ out.op = "List"
    /\ out.err = "nil"
    /\ \E i \in DOMAIN chan :
          /\ i < Newest(chan)
          /\ chan[i].name = ReservedName
          /\ chan[i].body /= chan[Newest(chan)].body
    /\ out.entries = Decode(chan[Newest(chan)].body)

\* The step in which p's Put returns from its second request without having
\* sent the file list, no one else having sent anything since p sent its
\* object.
PublishFailsAlone(p) ==
    /\ pc[p] = "loaded"
    /\ pc'[p] = "idle"
    /\ chan' = chan
    /\ call[p].blobIdx = Len(chan)

\* C16: failure after the object's upload.  When the upload of the file list
\* fails, Put returns an error, the object stays on the chat, and a List
\* returns what it returned before that Put sent its object.
OrphanIsUnlisted ==
    [][ \A p \in Procs :
          PublishFailsAlone(p)
          => /\ out' = PutOut(p, "filelist upload failed", "nil")
             /\ chan'[call[p].blobIdx].name = call[p].name
             /\ Latest(chan') = Latest(SubSeq(chan, 1, Len(chan) - 1)) ]_vars

\* C17: duplicates allowed.  When the last two messages are the object and
\* the file list of one Put, the latest file list is the entries there were
\* before that Put followed by its name, whether or not the name was among
\* them: one entry more.  Only chats on which no object carries the name
\* filelist.json are looked at.
AppendsOneEntry ==
    LET n == Len(chan) IN
    ( /\ n >= 2
      /\ \A k \in DOMAIN chan : chan[k].kind = "blob" => chan[k].name /= ReservedName
      /\ chan[n].kind = "catalog"
      /\ chan[n].by.blobIdx = n - 1 )
    => /\ Latest(chan).err = "nil"
       /\ Latest(chan).fileList = Append(EntriesAt(n - 2), chan[n].by.name)
       /\ Len(Latest(chan).fileList) = Len(EntriesAt(n - 2)) + 1

\* The step sends one message: the chat is as it was, with one message more
\* at its end.
SendsOne == Len(chan') = Len(chan) + 1 /\ SubSeq(chan', 1, Len(chan)) = chan

\* The message a step has sent is the object of a Put that starts, or the
\* file list of a Put that has sent its object before and no file list yet.
ObjectThenList ==
    LET m == chan'[Len(chan')] IN
    \/ /\ m.kind = "blob"
       /\ \E p \in Procs : pc[p] = "idle" /\ pc'[p] = "uploaded"
    \/ /\ m.kind = "catalog"
       /\ m.name = ReservedName
       /\ \E p \in Procs : pc[p] = "loaded" /\ pc'[p] = "idle"
                           /\ m.by.blobIdx = call[p].blobIdx
       /\ m.by.blobIdx \in 1..Len(chan)
       /\ chan[m.by.blobIdx].kind = "blob"
       /\ \A i \in Catalogs : chan[i].by.blobIdx /= m.by.blobIdx

\* C18: append-only chat.  No step removes, rewrites or reorders a message;
\* a step sends at most one message; List, loadFileList and the accessors
\* send none; and a Put sends its object first and its file list second,
\* nothing else.
AppendOnly ==
    [][ /\ chan' = chan \/ (SendsOne /\ ObjectThenList)
        /\ (out' /= out /\ out'.op \in {"List"} \cup ObjOps) => chan' = chan
        /\ \A p \in Procs : pc[p] = "uploaded" => chan' = chan \/ pc'[p] = pc[p]
      ]_vars

\* Two Puts have each sent their object and their file list.
AppendOnlySeen ==
    /\ Len(chan) = 4
    /\ Cardinality(Catalogs) = 2
    /\ \A i \in Catalogs : chan[i].by.blobIdx \in 1..(i - 1)

\* C19: no phantom entries.  On a chat that started empty and on which no
\* object carries the name filelist.json, every name in every file list was
\* sent as an object earlier on the chat than that list.
NoPhantomEntries ==
    (\A k \in DOMAIN chan : chan[k].kind = "blob" => chan[k].name /= ReservedName)
    => \A i \in Catalogs :
          /\ Decodable(chan[i].body)
          /\ \A nm \in Names(Decode(chan[i].body)) :
                \E k \in 1..(i - 1) : chan[k].kind = "blob" /\ chan[k].name = nm

\* A file list with two different names is on a chat on which no object
\* carries the name filelist.json.
NoPhantomEntriesSeen ==
    /\ \A k \in DOMAIN chan : chan[k].kind = "blob" => chan[k].name /= ReservedName
    /\ \E i \in Catalogs : Cardinality(Names(Decode(chan[i].body))) = 2
====
